---- MODULE Spec2Model ----
(***************************************************************************)
(* Model of src/project/src/App.tsx: the text-to-speech page.  The React   *)
(* state of App, the snapshot of speechSynthesis.speaking taken by the     *)
(* last render (it decides whether Pause/Resume and Stop are clickable),   *)
(* and the part of window.speechSynthesis the component talks to: the      *)
(* utterance queue, the global paused flag and the utterance events that   *)
(* have been fired by the synthesizer and not yet dispatched to the page.  *)
(* Rate and pitch are counted in tenths (1.0 is 10).                       *)
(***************************************************************************)
EXTENDS Integers, Sequences, FiniteSets, TLC

VARIABLES
    text,             \* useState('')        App.tsx:11
    voices,           \* useState<Voice[]>   App.tsx:12
    selectedVoice,    \* useState<string>    App.tsx:13
    rate,             \* useState(1)         App.tsx:14 (tenths)
    pitch,            \* useState(1)         App.tsx:15 (tenths)
    isPlaying,        \* useState(false)     App.tsx:16
    showSettings,     \* useState(false)     App.tsx:17
    utteranceRef,     \* useRef(null)        App.tsx:19
    renderedSpeaking, \* speechSynthesis.speaking as read by the last render (App.tsx:119,127)
    platformVoices,   \* what speechSynthesis.getVoices() returns now
    queue,            \* the synthesizer's utterance queue: which utterance, and whether it has begun
    paused,           \* the synthesizer's global paused state
    events,           \* utterance events fired and not yet dispatched (FIFO)
    nextId,           \* number of utterances constructed so far, plus one
    lastOp,           \* the event handled by the last step
    cmds,             \* the speechSynthesis methods called by the last step, in order
    was,              \* what the last step found: see Snapshot
    heard,            \* the utterances whose onstart handler has run
    cancelled,        \* the utterances cancel() has removed that still have events to come
    downloads         \* the files the page has handed to the browser to save, in order

vars == <<text, voices, selectedVoice, rate, pitch, isPlaying, showSettings,
          utteranceRef, renderedSpeaking, platformVoices,
          queue, paused, events, nextId, lastOp, cmds, was, heard, cancelled,
          downloads>>

uiState == <<text, voices, selectedVoice, rate, pitch, isPlaying, showSettings>>

platformState == <<queue, paused, events>>

(***************************************************************************)
(* Bounds and input sets.                                                  *)
(***************************************************************************)
MaxPlays == 3

MaxDownloads == 2

SliderMin == 5

SliderMax == 20

DefaultRate == 10

DefaultPitch == 10

SliderValues == {SliderMin, DefaultRate, SliderMax}

Texts == {"", "Hello world", "Bye"}

VoiceA == [name |-> "Alice", lang |-> "en-US", voiceURI |-> "uri:alice"]

VoiceB == [name |-> "Bruno", lang |-> "de-DE", voiceURI |-> "uri:bruno"]

VoiceC == [name |-> "Chloe", lang |-> "fr-FR", voiceURI |-> "uri:chloe"]

VoiceLists == { <<>>, <<VoiceA, VoiceB, VoiceC>>, <<VoiceB>> }

NoVoice == [name |-> "", lang |-> "", voiceURI |-> ""]

NoUtterance == [id |-> 0]

(***************************************************************************)
(* window.speechSynthesis as the component uses it.                        *)
(***************************************************************************)
\* speechSynthesis.speaking: an utterance has begun being spoken and has not
\* completed (independent of the paused state).
Speaking(q) == q # <<>> /\ q[1].started

\* speechSynthesis.cancel(): every utterance leaves the queue, and each gets an
\* error event ("interrupted" or "canceled"); the paused state is unchanged.
CancelQueue(q) == <<>>

CancelEvents(q, ev) == ev \o [i \in 1..Len(q) |-> [type |-> "error", id |-> q[i].id]]

\* the utterances cancel() removes
QueueIds(q) == {q[i].id : i \in 1..Len(q)}

\* speechSynthesis.speak(u): u is appended to the queue, not yet begun.
SpeakQueue(q, u) == Append(q, [id |-> u.id, started |-> FALSE])

\* the state a step starts in, as far as the properties below look back at it
Snapshot ==
    [playing |-> isPlaying, speaking |-> Speaking(queue), queued |-> Len(queue),
     paused |-> paused, selected |-> selectedVoice, catalog |-> Len(voices)]

(***************************************************************************)
(* Pure parts of the handlers.                                             *)
(***************************************************************************)
\* a lookup that falls back to the first voice of the catalog
FindVoice_FirstAsDefault(vs, uri) ==
    IF \E i \in 1..Len(vs) : vs[i].voiceURI = uri
    THEN vs[CHOOSE i \in 1..Len(vs) : vs[i].voiceURI = uri]
    ELSE IF Len(vs) > 0 THEN vs[1] ELSE [name |-> "", lang |-> "", voiceURI |-> uri]

\* voices.find(v => v.voiceURI === selectedVoice) || null
FindVoice(vs, uri) ==
    IF \E i \in 1..Len(vs) : vs[i].voiceURI = uri
    THEN vs[CHOOSE i \in 1..Len(vs) :
                /\ vs[i].voiceURI = uri
                /\ \A j \in 1..(i - 1) : vs[j].voiceURI # uri]
    ELSE NoVoice

\* loadVoices that never selects
LoadedSelection_Never(availableVoices, sel) == sel

\* loadVoices: the selection after the catalog was read
LoadedSelection(availableVoices, sel) ==
    IF Len(availableVoices) > 0 THEN availableVoices[1].voiceURI ELSE sel

\* an utterance whose rate was never set: the platform's default stays
NewUtterance_RateNotSet(id) ==
    [id |-> id, text |-> text, voice |-> FindVoice(voices, selectedVoice),
     rate |-> DefaultRate, pitch |-> pitch]

\* new SpeechSynthesisUtterance(text) with voice, rate and pitch set
NewUtterance(id) ==
    [id |-> id, text |-> text, voice |-> FindVoice(voices, selectedVoice),
     rate |-> rate, pitch |-> pitch]

\* a Play button that is disabled only while playing
PlayDisabled_IgnoresText == isPlaying

\* disabled={!text || isPlaying}
PlayDisabled == text = "" \/ isPlaying

\* disabled={!speechSynthesis.speaking}, as evaluated by the last render
PauseDisabled == ~renderedSpeaking

StopDisabled == ~renderedSpeaking

\* the option the <select> shows: its value, or the first option when the value
\* matches no option
ShownVoice ==
    IF \E i \in 1..Len(voices) : voices[i].voiceURI = selectedVoice
    THEN selectedVoice
    ELSE IF Len(voices) > 0 THEN voices[1].voiceURI ELSE ""

(***************************************************************************)
(* Initial state: after the first render and the mount effect, which has   *)
(* called loadVoices once and registered it as the voiceschanged handler.  *)
(* On a platform without that event (App.tsx:31) the handler is never      *)
(* called: those are the behaviours in which VoicesChanged never happens.  *)
(***************************************************************************)
Init ==
    /\ text = ""
    /\ platformVoices \in VoiceLists
    /\ voices = platformVoices
    /\ selectedVoice = LoadedSelection(platformVoices, "")
    /\ rate = DefaultRate
    /\ pitch = DefaultPitch
    /\ isPlaying = FALSE
    /\ showSettings = FALSE
    /\ utteranceRef = NoUtterance
    /\ renderedSpeaking = FALSE
    /\ queue = <<>>
    /\ paused = FALSE
    /\ events = <<>>
    /\ nextId = 1
    /\ lastOp = "mount"
    /\ cmds = <<>>
    /\ was = [playing |-> FALSE, speaking |-> FALSE, queued |-> 0, paused |-> FALSE,
              selected |-> "", catalog |-> 0]
    /\ heard = {}
    /\ cancelled = {}
    /\ downloads = <<>>

(***************************************************************************)
(* User input that only changes React state.  Every state change renders   *)
(* the component again, and the render reads speechSynthesis.speaking.     *)
(***************************************************************************)
\* textarea onChange
SetText ==
    \E t \in Texts :
        /\ t # text
        /\ text' = t
        /\ renderedSpeaking' = Speaking(queue)
        /\ lastOp' = "input"
        /\ was' = Snapshot
        /\ heard' = heard
        /\ cancelled' = cancelled
        /\ downloads' = downloads
        /\ cmds' = <<>>
        /\ UNCHANGED <<voices, selectedVoice, rate, pitch, isPlaying, showSettings,
                       utteranceRef, platformVoices, queue, paused,
                       events, nextId>>

\* settings button onClick
ToggleSettings ==
    /\ showSettings' = ~showSettings
    /\ renderedSpeaking' = Speaking(queue)
    /\ lastOp' = "input"
    /\ was' = Snapshot
    /\ heard' = heard
    /\ cancelled' = cancelled
    /\ downloads' = downloads
    /\ cmds' = <<>>
    /\ UNCHANGED <<text, voices, selectedVoice, rate, pitch, isPlaying,
                   utteranceRef, platformVoices, queue, paused,
                   events, nextId>>

\* voice <select> onChange
SelectVoice ==
    \E i \in 1..Len(voices) :
        /\ showSettings
        /\ voices[i].voiceURI # ShownVoice
        /\ selectedVoice' = voices[i].voiceURI
        /\ renderedSpeaking' = Speaking(queue)
        /\ lastOp' = "selectVoice"
        /\ was' = Snapshot
        /\ heard' = heard
        /\ cancelled' = cancelled
        /\ downloads' = downloads
        /\ cmds' = <<>>
        /\ UNCHANGED <<text, voices, rate, pitch, isPlaying, showSettings,
                       utteranceRef, platformVoices, queue, paused,
                       events, nextId>>

\* a rate slider that also writes the rate into the utterance built last
SetRate_UpdatesUtterance ==
    \E r \in SliderValues :
        /\ showSettings
        /\ r # rate
        /\ rate' = r
        /\ utteranceRef' = IF utteranceRef = NoUtterance
                           THEN utteranceRef
                           ELSE [utteranceRef EXCEPT !.rate = r]
        /\ renderedSpeaking' = Speaking(queue)
        /\ lastOp' = "input"
        /\ was' = Snapshot
        /\ cmds' = <<>>
        /\ UNCHANGED <<text, voices, selectedVoice, pitch, isPlaying, showSettings,
                       platformVoices, queue, paused, events, nextId, heard,
                       cancelled, downloads>>

\* rate slider onChange
SetRate ==
    \E r \in SliderValues :
        /\ showSettings
        /\ r # rate
        /\ rate' = r
        /\ renderedSpeaking' = Speaking(queue)
        /\ lastOp' = "input"
        /\ was' = Snapshot
        /\ heard' = heard
        /\ cancelled' = cancelled
        /\ downloads' = downloads
        /\ cmds' = <<>>
        /\ UNCHANGED <<text, voices, selectedVoice, pitch, isPlaying, showSettings,
                       utteranceRef, platformVoices, queue, paused,
                       events, nextId>>

\* pitch slider onChange
SetPitch ==
    \E p \in SliderValues :
        /\ showSettings
        /\ p # pitch
        /\ pitch' = p
        /\ renderedSpeaking' = Speaking(queue)
        /\ lastOp' = "input"
        /\ was' = Snapshot
        /\ heard' = heard
        /\ cancelled' = cancelled
        /\ downloads' = downloads
        /\ cmds' = <<>>
        /\ UNCHANGED <<text, voices, selectedVoice, rate, isPlaying, showSettings,
                       utteranceRef, platformVoices, queue, paused,
                       events, nextId>>

(***************************************************************************)
(* The playback handlers.                                                  *)
(***************************************************************************)
\* what the render after a handler reads: the component renders again only
\* when the handler changed its state
RenderAfter(playingAfter, queueAfter) ==
    IF playingAfter # isPlaying THEN Speaking(queueAfter) ELSE renderedSpeaking

\* handleSpeak that also sets the playback flag when it submits
handleSpeak_SetsFlag ==
    LET sp == Speaking(queue)
        q1 == IF sp THEN CancelQueue(queue) ELSE queue
        e1 == IF sp THEN CancelEvents(queue, events) ELSE events
        c1 == IF sp THEN <<"cancel">> ELSE <<>>
        u  == NewUtterance(nextId)
    IN  /\ events' = e1
        /\ utteranceRef' = u
        /\ queue' = SpeakQueue(q1, u)
        /\ nextId' = nextId + 1
        /\ cmds' = Append(c1, "speak")
        /\ isPlaying' = TRUE
        /\ renderedSpeaking' = Speaking(queue')
        /\ lastOp' = "handleSpeak"
        /\ was' = Snapshot
        /\ heard' = heard
        /\ cancelled' = IF sp THEN cancelled \cup QueueIds(queue) ELSE cancelled
        /\ downloads' = downloads
        /\ UNCHANGED <<text, voices, selectedVoice, rate, pitch,
                       showSettings, platformVoices, paused>>

\* handleSpeak, App.tsx:36-53
handleSpeak ==
    LET sp == Speaking(queue)
        q1 == IF sp THEN CancelQueue(queue) ELSE queue
        e1 == IF sp THEN CancelEvents(queue, events) ELSE events
        c1 == IF sp THEN <<"cancel">> ELSE <<>>
        u  == NewUtterance(nextId)
    IN  /\ events' = e1
        /\ IF text # ""
           THEN /\ utteranceRef' = u
                /\ queue' = SpeakQueue(q1, u)
                /\ nextId' = nextId + 1
                /\ cmds' = Append(c1, "speak")
           ELSE /\ queue' = q1
                /\ cmds' = c1
                /\ UNCHANGED <<utteranceRef, nextId>>
        /\ lastOp' = "handleSpeak"
        /\ was' = Snapshot
        /\ heard' = heard
        /\ cancelled' = IF sp THEN cancelled \cup QueueIds(queue) ELSE cancelled
        /\ downloads' = downloads
        /\ UNCHANGED <<text, voices, selectedVoice, rate, pitch, isPlaying,
                       showSettings, renderedSpeaking, platformVoices, paused>>

\* handlePause that sets the flag without calling pause or resume
handlePause_NoCommand ==
    /\ IF Speaking(queue)
       THEN /\ cmds' = <<>>
            /\ isPlaying' = ~isPlaying
            /\ UNCHANGED paused
       ELSE /\ cmds' = <<>>
            /\ UNCHANGED <<paused, isPlaying>>
    /\ renderedSpeaking' = RenderAfter(isPlaying', queue)
    /\ lastOp' = "handlePause"
    /\ was' = Snapshot
    /\ heard' = heard
    /\ cancelled' = cancelled
    /\ downloads' = downloads
    /\ UNCHANGED <<text, voices, selectedVoice, rate, pitch, showSettings,
                   utteranceRef, platformVoices, queue, events,
                   nextId>>

\* handlePause without the test of speechSynthesis.speaking
handlePause_NoGuard ==
    /\ paused' = isPlaying
    /\ cmds' = IF isPlaying THEN <<"pause">> ELSE <<"resume">>
    /\ isPlaying' = ~isPlaying
    /\ renderedSpeaking' = RenderAfter(isPlaying', queue)
    /\ lastOp' = "handlePause"
    /\ was' = Snapshot
    /\ UNCHANGED <<text, voices, selectedVoice, rate, pitch, showSettings,
                   utteranceRef, platformVoices, queue, events, nextId, heard,
                   cancelled, downloads>>

\* handlePause, App.tsx:55-64
handlePause ==
    /\ IF Speaking(queue)
       THEN /\ paused' = isPlaying
            /\ cmds' = IF isPlaying THEN <<"pause">> ELSE <<"resume">>
            /\ isPlaying' = ~isPlaying
       ELSE /\ cmds' = <<>>
            /\ UNCHANGED <<paused, isPlaying>>
    /\ renderedSpeaking' = RenderAfter(isPlaying', queue)
    /\ lastOp' = "handlePause"
    /\ was' = Snapshot
    /\ heard' = heard
    /\ cancelled' = cancelled
    /\ downloads' = downloads
    /\ UNCHANGED <<text, voices, selectedVoice, rate, pitch, showSettings,
                   utteranceRef, platformVoices, queue, events,
                   nextId>>

\* handleStop without the call of cancel
handleStop_NoCancel ==
    /\ cmds' = <<>>
    /\ isPlaying' = FALSE
    /\ renderedSpeaking' = RenderAfter(FALSE, queue)
    /\ lastOp' = "handleStop"
    /\ was' = Snapshot
    /\ heard' = heard
    /\ cancelled' = cancelled
    /\ downloads' = downloads
    /\ UNCHANGED <<text, voices, selectedVoice, rate, pitch, showSettings,
                   utteranceRef, platformVoices, queue, events, paused, nextId>>

\* handleStop, App.tsx:66-69
handleStop ==
    /\ queue' = CancelQueue(queue)
    /\ events' = CancelEvents(queue, events)
    /\ cmds' = <<"cancel">>
    /\ isPlaying' = FALSE
    /\ renderedSpeaking' = RenderAfter(FALSE, queue')
    /\ lastOp' = "handleStop"
    /\ was' = Snapshot
    /\ heard' = heard
    /\ cancelled' = cancelled \cup QueueIds(queue)
    /\ downloads' = downloads
    /\ UNCHANGED <<text, voices, selectedVoice, rate, pitch, showSettings,
                   utteranceRef, platformVoices, paused, nextId>>

\* a click on a disabled button reaches no handler
Ignored(what) ==
    /\ lastOp' = what
    /\ was' = Snapshot
    /\ heard' = heard
    /\ cancelled' = cancelled
    /\ downloads' = downloads
    /\ cmds' = <<>>
    /\ UNCHANGED <<text, voices, selectedVoice, rate, pitch, isPlaying, showSettings,
                   utteranceRef, renderedSpeaking, platformVoices,
                   queue, paused, events, nextId>>

\* a click on Play, App.tsx:109-116
ClickPlay ==
    IF PlayDisabled
    THEN Ignored("playDisabled")
    ELSE nextId <= MaxPlays /\ handleSpeak

\* a click on Pause/Resume, App.tsx:117-124
ClickPause ==
    IF PauseDisabled THEN Ignored("pauseDisabled") ELSE handlePause

\* a click on Stop, App.tsx:125-132
ClickStop ==
    IF StopDisabled THEN Ignored("stopDisabled") ELSE handleStop

\* a Download button that is never disabled
DownloadDisabled_Never == FALSE

\* disabled={!text}, App.tsx:136
DownloadDisabled == text = ""

\* handleDownload, App.tsx:71-79: a Blob of the text, saved through an anchor
\* whose download attribute is 'speech-text.txt'
handleDownload ==
    /\ downloads' = Append(downloads, [name |-> "speech-text.txt", content |-> text])
    /\ lastOp' = "handleDownload"
    /\ cmds' = <<>>
    /\ was' = Snapshot
    /\ UNCHANGED <<text, voices, selectedVoice, rate, pitch, isPlaying, showSettings,
                   utteranceRef, renderedSpeaking, platformVoices, queue, paused,
                   events, nextId, heard, cancelled>>

\* a click on Download Text, App.tsx:134-141
ClickDownload ==
    IF DownloadDisabled
    THEN Ignored("downloadDisabled")
    ELSE Len(downloads) < MaxDownloads /\ handleDownload

(***************************************************************************)
(* The synthesizer's own steps, and the dispatch of its events to the      *)
(* handlers handleSpeak attached to the utterance.                         *)
(***************************************************************************)
\* the first utterance of the queue begins to be spoken
PlatformStart ==
    /\ queue # <<>>
    /\ ~queue[1].started
    /\ ~paused
    /\ queue' = [queue EXCEPT ![1].started = TRUE]
    /\ events' = Append(events, [type |-> "start", id |-> queue[1].id])
    /\ lastOp' = "platform"
    /\ was' = Snapshot
    /\ heard' = heard
    /\ cancelled' = cancelled
    /\ downloads' = downloads
    /\ cmds' = <<>>
    /\ UNCHANGED <<text, voices, selectedVoice, rate, pitch, isPlaying, showSettings,
                   utteranceRef, renderedSpeaking, platformVoices,
                   paused, nextId>>

\* the utterance being spoken completes
PlatformEnd ==
    /\ Speaking(queue)
    /\ ~paused
    /\ queue' = Tail(queue)
    /\ events' = Append(events, [type |-> "end", id |-> queue[1].id])
    /\ lastOp' = "platform"
    /\ was' = Snapshot
    /\ heard' = heard
    /\ cancelled' = cancelled
    /\ downloads' = downloads
    /\ cmds' = <<>>
    /\ UNCHANGED <<text, voices, selectedVoice, rate, pitch, isPlaying, showSettings,
                   utteranceRef, renderedSpeaking, platformVoices,
                   paused, nextId>>

\* the synthesizer fails on the first utterance of the queue
PlatformError ==
    /\ queue # <<>>
    /\ queue' = Tail(queue)
    /\ events' = Append(events, [type |-> "error", id |-> queue[1].id])
    /\ lastOp' = "platform"
    /\ was' = Snapshot
    /\ heard' = heard
    /\ cancelled' = cancelled
    /\ downloads' = downloads
    /\ cmds' = <<>>
    /\ UNCHANGED <<text, voices, selectedVoice, rate, pitch, isPlaying, showSettings,
                   utteranceRef, renderedSpeaking, platformVoices,
                   paused, nextId>>

\* utterance.onstart = () => setIsPlaying(true), App.tsx:47; the handlers map
\* the playback flag they find to the flag they leave
onstart(playing) == TRUE

\* an end handler that was never attached
onend_Missing(playing) == playing

\* utterance.onend = () => setIsPlaying(false), App.tsx:48
onend(playing) == FALSE

\* an error handler that was never attached
onerror_Missing(playing) == playing

\* utterance.onerror = () => setIsPlaying(false), App.tsx:49
onerror(playing) == FALSE

\* the flag the handler of an event leaves
HandlerSets(type, playing) ==
    CASE type = "start" -> onstart(playing)
      [] type = "end"   -> onend(playing)
      [] type = "error" -> onerror(playing)

\* the oldest undispatched event reaches its handler
Deliver ==
    /\ events # <<>>
    /\ isPlaying' = HandlerSets(events[1].type, isPlaying)
    /\ events' = Tail(events)
    /\ renderedSpeaking' = RenderAfter(isPlaying', queue)
    /\ lastOp' = events[1].type
    /\ was' = Snapshot
    /\ heard' = IF events[1].type = "start" THEN heard \cup {events[1].id} ELSE heard
    /\ cancelled' = cancelled \cap {events[i].id : i \in 2..Len(events)}
    /\ downloads' = downloads
    /\ cmds' = <<>>
    /\ UNCHANGED <<text, voices, selectedVoice, rate, pitch, showSettings,
                   utteranceRef, platformVoices, queue, paused,
                   nextId>>

\* loadVoices as the voiceschanged handler, App.tsx:22-28 and 31-33: the
\* platform's list changes and the event reaches the registered handler
VoicesChanged ==
    \E l \in VoiceLists :
        /\ platformVoices' = l
        /\ voices' = l
        /\ selectedVoice' = LoadedSelection(l, selectedVoice)
        /\ renderedSpeaking' =
               IF voices' # voices \/ selectedVoice' # selectedVoice
               THEN Speaking(queue) ELSE renderedSpeaking
        /\ lastOp' = "voiceschanged"
        /\ was' = Snapshot
        /\ heard' = heard
        /\ cancelled' = cancelled
        /\ downloads' = downloads
        /\ cmds' = <<>>
        /\ UNCHANGED <<text, rate, pitch, isPlaying, showSettings, utteranceRef,
                       queue, paused, events, nextId>>

Next ==
    \/ SetText
    \/ ToggleSettings
    \/ SelectVoice
    \/ SetRate
    \/ SetPitch
    \/ ClickPlay
    \/ ClickPause
    \/ ClickStop
    \/ PlatformStart
    \/ PlatformEnd
    \/ PlatformError
    \/ Deliver
    \/ VoicesChanged
    \/ ClickDownload

Spec == Init /\ [][Next]_vars

(***************************************************************************)
(* The parts of Next that are checked.  The playback part holds every  *)
(* step that reads or writes the playback flag or the synthesizer, with    *)
(* the text box and the settings button as the inputs that render the      *)
(* component again; voice, rate and pitch keep their initial values.  The  *)
(* settings part holds every step that writes the text, the catalog, the   *)
(* selection, the rate or the pitch, and Play, which reads them; there the *)
(* synthesizer does not get to its queue.  The download part holds the     *)
(* Download button with the text box and an utterance that is played to    *)
(* its end.                                                                *)
(***************************************************************************)
NextPlayback ==
    \/ SetText
    \/ ToggleSettings
    \/ ClickPlay
    \/ ClickPause
    \/ ClickStop
    \/ PlatformStart
    \/ PlatformEnd
    \/ PlatformError
    \/ Deliver

PlaybackSpec == Init /\ [][NextPlayback]_vars

NextSettings ==
    \/ SetText
    \/ ToggleSettings
    \/ SelectVoice
    \/ SetRate
    \/ SetPitch
    \/ VoicesChanged
    \/ ClickPlay

SettingsSpec == Init /\ [][NextSettings]_vars

NextDownload ==
    \/ SetText
    \/ ToggleSettings
    \/ ClickDownload
    \/ ClickPlay
    \/ PlatformStart
    \/ PlatformEnd
    \/ Deliver

DownloadSpec == Init /\ [][NextDownload]_vars

\* the playback part with the browser's event loop: an event that has been
\* fired is dispatched
PlaybackFairSpec == PlaybackSpec /\ WF_vars(Deliver)

(***************************************************************************)
(* Properties.                                                             *)
(***************************************************************************)
\* C1: whenever handleStop has run, whatever it found (nothing, a spoken, a
\* paused or a not yet begun utterance), it has called cancel and nothing
\* else, the playback flag is false and the synthesizer holds no utterance.
C1_StopLeavesIdle ==
    lastOp = "handleStop" => (cmds = <<"cancel">> /\ ~isPlaying /\ queue = <<>>)

\* C1: Stop has run on an utterance that was submitted and had not begun.
C1_StopBeforeStart ==
    /\ lastOp = "handleStop"
    /\ was.queued = 1
    /\ ~was.speaking
    /\ queue = <<>>

\* C2: the synthesizer never holds more than one utterance of the page.
C2_AtMostOneUtterance == Len(queue) <= 1

\* C3, as stated: every run of handlePause flips the playback flag and calls
\* exactly one method, pause if the flag was true and resume if it was false.
C3_EveryClickToggles ==
    lastOp = "handlePause" =>
        /\ isPlaying = ~was.playing
        /\ cmds = IF was.playing THEN <<"pause">> ELSE <<"resume">>

\* C3, amended: a run of handlePause that finds speechSynthesis.speaking true
\* flips the playback flag and calls exactly one method, pause if the flag was
\* true and resume if it was false; a run that finds it false calls nothing
\* and leaves the flag as it was.
C3_ToggleWhileSpeaking ==
    lastOp = "handlePause" =>
        IF was.speaking
        THEN /\ isPlaying = ~was.playing
             /\ cmds = IF was.playing THEN <<"pause">> ELSE <<"resume">>
             /\ paused = was.playing
        ELSE /\ isPlaying = was.playing
             /\ cmds = <<>>
             /\ paused = was.paused

\* C3: handlePause has run while an utterance was being spoken, and paused it.
C3_PausedByToggle ==
    /\ lastOp = "handlePause"
    /\ was.speaking
    /\ was.playing
    /\ cmds = <<"pause">>
    /\ ~isPlaying
    /\ paused

\* C4: a click on Play while the text is empty constructs and submits nothing,
\* calls no method of the synthesizer, and changes neither the state of the
\* component nor the state of the synthesizer.
C4_EmptyPlayIsNoOp ==
    [][(text = "" /\ ClickPlay) =>
          /\ cmds' = <<>>
          /\ UNCHANGED <<uiState, platformState, utteranceRef, nextId,
                         renderedSpeaking>>]_vars

\* C4: Play was clicked with an empty text while an utterance was being spoken
\* (the case in which handleSpeak would have cancelled it).
C4_EmptyPlayWhileSpeaking ==
    /\ lastOp = "playDisabled"
    /\ text = ""
    /\ was.speaking
    /\ Speaking(queue)
    /\ ~isPlaying

\* C5: the page is Idle (flag false) right after Play has submitted an
\* utterance, the delivery of an on-start callback leaves the playback flag
\* true (Speaking) and the delivery of an on-end callback leaves it false
\* (Idle): Play, on-start, on-end take the page through Idle, Speaking, Idle.
C5_StartThenEnd ==
    /\ lastOp = "handleSpeak" => ~isPlaying
    /\ lastOp = "start" => isPlaying
    /\ lastOp = "end" => ~isPlaying

\* C5: one Play, its on-start and its on-end have happened and nothing else
\* is left: the page went Idle, Speaking, Idle.
C5_PlayedToTheEnd ==
    /\ lastOp = "end"
    /\ nextId = 2
    /\ heard = {1}
    /\ was.playing
    /\ ~isPlaying
    /\ queue = <<>>
    /\ events = <<>>

\* C6, as stated (its second half): while the utterance Play constructed last
\* is the one the synthesizer speaks, the playback flag is true only once the
\* on-start callback of that utterance has been delivered.
C6_TrueOnlyAfterOwnStart ==
    (isPlaying /\ queue = <<[id |-> utteranceRef.id, started |-> TRUE]>>) =>
        utteranceRef.id \in heard

\* C6, amended: a click on Play leaves the playback flag as it was, and the
\* flag turns from false to true only in the delivery of an on-start callback
\* or in a run of handlePause.
C6_PlayLeavesFlag ==
    [][/\ ClickPlay => isPlaying' = isPlaying
       /\ (~isPlaying /\ isPlaying') => lastOp' \in {"start", "handlePause"}]_vars

\* C6: Play has submitted an utterance and the flag is still false.
C6_SubmittedNotPlaying ==
    /\ lastOp = "handleSpeak"
    /\ cmds = <<"speak">>
    /\ ~isPlaying
    /\ ~was.playing
    /\ queue = <<[id |-> utteranceRef.id, started |-> FALSE]>>

\* C7: the delivery of an on-error callback leaves the playback flag as the
\* delivery of an on-end callback would in the same state, namely false, and
\* changes nothing else of the component.
C7_ErrorLikeEnd ==
    [][(Deliver /\ events[1].type = "error") =>
          /\ isPlaying' = HandlerSets("end", isPlaying)
          /\ ~isPlaying'
          /\ UNCHANGED <<text, voices, selectedVoice, rate, pitch, showSettings,
                         utteranceRef>>]_vars

\* C7: an on-error callback was delivered while the flag was true.
C7_ErrorWhilePlaying ==
    /\ lastOp = "error"
    /\ was.playing
    /\ ~isPlaying

\* C8: the utterance Play submits carries the text of the text box and the
\* rate and pitch the sliders show, which lie between 0.5 and 2.0.
C8_RequestCarriesSettings ==
    (lastOp = "handleSpeak" /\ cmds # <<>> /\ cmds[Len(cmds)] = "speak") =>
        /\ queue # <<>>
        /\ queue[Len(queue)].id = utteranceRef.id
        /\ utteranceRef.text = text
        /\ utteranceRef.text # ""
        /\ utteranceRef.rate = rate
        /\ utteranceRef.pitch = pitch
        /\ utteranceRef.rate \in SliderMin..SliderMax
        /\ utteranceRef.pitch \in SliderMin..SliderMax

\* C8: a second Play after the text and both sliders were changed.
C8_PlayAfterSliders ==
    /\ lastOp = "handleSpeak"
    /\ utteranceRef.id = 2
    /\ utteranceRef.text = "Bye"
    /\ utteranceRef.rate = SliderMax
    /\ utteranceRef.pitch = SliderMin

\* C9: after the initial load and after every voices-changed notification the
\* catalog is the platform's list, in its order; when that list is not empty
\* the selected voice is its first voice, and when it is empty the selection
\* is what it was (none, at the initial load).
C9_CatalogLoaded ==
    lastOp \in {"mount", "voiceschanged"} =>
        /\ voices = platformVoices
        /\ IF Len(platformVoices) > 0
           THEN selectedVoice = platformVoices[1].voiceURI
           ELSE selectedVoice = was.selected

\* C9: the catalog was empty, nothing was selected, and a voices-changed
\* notification brought three voices.
C9_ThreeVoicesArrived ==
    /\ lastOp = "voiceschanged"
    /\ was.catalog = 0
    /\ was.selected = ""
    /\ voices = <<VoiceA, VoiceB, VoiceC>>
    /\ selectedVoice = VoiceA.voiceURI

\* the ids of the voices of a catalog
VoiceURIs(vs) == {vs[i].voiceURI : i \in 1..Len(vs)}

\* C10: a voices-changed notification that finds a voice selected leaves the
\* selection as it is (stated for a selection that the new catalog still
\* holds).
C10_SelectionKept ==
    (lastOp = "voiceschanged" /\ was.selected \in VoiceURIs(voices)) =>
        selectedVoice = was.selected

\* C11: no file with empty content is ever produced; a click on Download with
\* an empty text produces nothing, and with a text it adds exactly one file,
\* named speech-text.txt and holding the text; the click calls no method of
\* the synthesizer and changes nothing of the component or the synthesizer.
C11_DownloadExportsText ==
    [][ClickDownload =>
          /\ \A i \in 1..Len(downloads') : downloads'[i].content # ""
          /\ downloads' = IF text = ""
                          THEN downloads
                          ELSE Append(downloads,
                                      [name |-> "speech-text.txt", content |-> text])
          /\ cmds' = <<>>
          /\ UNCHANGED <<uiState, platformState, utteranceRef, nextId,
                         renderedSpeaking>>]_vars

\* C11: a second file was exported, with another text than the first, while
\* an utterance was being spoken.
C11_ExportedWhileSpeaking ==
    /\ lastOp = "handleDownload"
    /\ Len(downloads) = 2
    /\ downloads[2].content = text
    /\ downloads[1].content # text
    /\ Speaking(queue)
    /\ isPlaying

\* C12: a click on Pause/Resume while speechSynthesis.speaking is false (nothing
\* in the queue, or only utterances that have not begun) calls neither pause
\* nor resume nor anything else, and leaves the playback flag and the paused
\* state of the synthesizer as they were.
C12_ToggleNeedsSpeaking ==
    [][(ClickPause /\ ~Speaking(queue)) =>
          /\ cmds' = <<>>
          /\ UNCHANGED <<isPlaying, paused, queue, events>>]_vars

\* C12: handlePause was reached through a button that was still enabled while
\* the synthesizer held nothing, and did nothing.
C12_ToggleOnIdlePlatform ==
    /\ lastOp = "handlePause"
    /\ was.queued = 0
    /\ ~was.speaking
    /\ cmds = <<>>
    /\ isPlaying = was.playing

\* C13: the voice of the utterance Play submits is an entry of the catalog
\* whose id is the selected id when the catalog has such an entry, and none
\* otherwise; it is never a voice the catalog does not hold.
C13_VoiceFromCatalog ==
    (lastOp = "handleSpeak" /\ cmds # <<>> /\ cmds[Len(cmds)] = "speak") =>
        IF selectedVoice \in VoiceURIs(voices)
        THEN /\ \E i \in 1..Len(voices) : voices[i] = utteranceRef.voice
             /\ utteranceRef.voice.voiceURI = selectedVoice
        ELSE utteranceRef.voice = NoVoice

\* C13: Play was clicked with a selection the catalog has lost: the request
\* carries no voice.
C13_PlayWithLostVoice ==
    /\ lastOp = "handleSpeak"
    /\ selectedVoice = VoiceA.voiceURI
    /\ voices = <<>>
    /\ utteranceRef.voice = NoVoice
    /\ utteranceRef.id = nextId - 1

\* C14: the delivery of a callback of an utterance that cancel() has removed
\* (in Stop, or in a Play that replaced it) leaves the playback flag as it is.
C14_StaleCallbacksIgnored ==
    [][(Deliver /\ events[1].id \in cancelled) => isPlaying' = isPlaying]_vars

\* C15, as stated (for the states in which no cancelled utterance has
\* callbacks to come): while the playback flag is true the synthesizer holds
\* an utterance that has begun, and is not paused.
C15_PlayingMeansSpeaking ==
    (isPlaying /\ cancelled = {}) => (Speaking(queue) /\ ~paused)

\* C15, amended: while the playback flag is true and no callback is waiting
\* to be delivered, the synthesizer holds an utterance that has begun and has
\* not completed (it may be paused).
C15_PlayingMeansBegun == (isPlaying /\ events = <<>>) => Speaking(queue)

\* C15: the flag is true with every callback delivered while the synthesizer
\* is paused: an on-start callback arrived after the utterance was paused.
C15_PlayingWhilePaused ==
    /\ isPlaying
    /\ events = <<>>
    /\ Speaking(queue)
    /\ paused
    /\ lastOp = "start"

\* C16: whenever the synthesizer holds no utterance and every callback it
\* fired has been delivered, the playback flag is false; and, callbacks being
\* delivered fairly, once the synthesizer stays without an utterance the flag
\* becomes false and stays false (Play is not left disabled by it).
C16_IdleMeansNotPlaying ==
    /\ []((queue = <<>> /\ events = <<>>) => ~isPlaying)
    /\ (<>[](queue = <<>>) => <>[](~isPlaying))

\* C16: an utterance left the synthesizer while the flag was true, its
\* callbacks have all been delivered, nothing is left in the synthesizer, the
\* flag is false and Play is enabled.
C16_SettledAfterError ==
    /\ lastOp = "error"
    /\ was.playing
    /\ queue = <<>>
    /\ events = <<>>
    /\ ~isPlaying
    /\ text # ""
    /\ ~PlayDisabled

\* C17, as stated: the selected voice id is empty or the id of a voice of the
\* catalog.
C17_SelectionInCatalog == selectedVoice = "" \/ selectedVoice \in VoiceURIs(voices)

\* C17, amended: while the catalog holds a voice, the selected voice id is the
\* id of a voice of the catalog; while the catalog is empty it is empty or the
\* id that was selected when the catalog became empty.
C17_SelectionInNonEmptyCatalog ==
    /\ voices # <<>> => selectedVoice \in VoiceURIs(voices)
    /\ (voices = <<>> /\ lastOp = "voiceschanged") => selectedVoice = was.selected

\* C17: the catalog shrank from three voices to one and the selection moved to
\* the voice that is left.
C17_CatalogShrank ==
    /\ lastOp = "voiceschanged"
    /\ was.catalog = 3
    /\ was.selected = VoiceC.voiceURI
    /\ voices = <<VoiceB>>
    /\ selectedVoice = VoiceB.voiceURI

\* C18: editing the text, selecting a voice, moving the rate or the pitch
\* slider and toggling the settings panel call no method of the synthesizer
\* and change neither the playback flag, nor the synthesizer, nor the
\* utterance built by the last Play.
C18_EditsLeaveUtterance ==
    [][(SetText \/ SelectVoice \/ SetRate \/ SetPitch \/ ToggleSettings) =>
          /\ cmds' = <<>>
          /\ UNCHANGED <<isPlaying, utteranceRef, queue, paused, events, nextId>>]_vars

\* C18: after Play submitted an utterance, the text, the voice, the rate and
\* the pitch were all changed, and the utterance, still queued, has the
\* values it was built with.
C18_EditedAfterSubmit ==
    /\ lastOp \in {"input", "selectVoice"}
    /\ utteranceRef # NoUtterance
    /\ queue # <<>>
    /\ queue[Len(queue)].id = utteranceRef.id
    /\ utteranceRef.text # text
    /\ utteranceRef.rate # rate
    /\ utteranceRef.pitch # pitch
    /\ utteranceRef.voice # NoVoice
    /\ utteranceRef.voice.voiceURI # selectedVoice
====
